---- MODULE Spec2Model ----
(***************************************************************************)
(* Model of the NuGet dependency fetcher (src/main.py): the run of main()  *)
(* as a state machine, one action per call made by main(), run() and       *)
(* get_dependencies(), with the configuration file and the registry's      *)
(* responses as inputs.                                                    *)
(*                                                                         *)
(* JSON values.  A string is a sequence of one-character strings, so that  *)
(* str.lower(), str.strip(), `in` and f-string concatenation are computed  *)
(* character by character.  A dict is a record over the keys the code      *)
(* reads; a key the dict does not hold has the value Absent.               *)
(***************************************************************************)
EXTENDS Integers, Naturals, Sequences, FiniteSets, TLC

VARIABLES
    pc,                  \* position of the run
    configFile,          \* the file at config_path
    config,              \* self.config
    serviceType,         \* service_type argument of _find_service_url
    serviceIndex,        \* service_index (get_dependencies)
    registrationBaseUrl, \* registration_base_url (get_dependencies)
    altIndex,            \* index_data (_try_alternative_registration_url)
    packageData,         \* package_data (get_dependencies)
    extracted,           \* dependencies (get_dependencies), before the filter
    dependencies,        \* self.dependencies
    depsAssigned,        \* line 323 has run
    displayed,           \* display_dependencies has been called
    requests,            \* the HTTP requests made so far, oldest first
    primaryFailed,       \* _get_package_data raised NuGetError (line 306)
    raised,              \* the exception that left get_dependencies / __init__
    caughtBy,            \* the handler that caught it
    exitCode             \* the process's exit status

vars == <<pc, configFile, config, serviceType, serviceIndex, registrationBaseUrl,
          altIndex, packageData, extracted, dependencies, depsAssigned, displayed,
          requests, primaryFailed, raised, caughtBy, exitCode>>

----------------------------------------------------------------------------
(* Bounds of the input sets *)

MaxStrLen == 2      \* length of the strings of a config's required fields
MaxResources == 2   \* resources of a service index
MaxPages == 2       \* pages of an index-of-versions document
MaxEntries == 3     \* leaf items of an index-of-versions document, all pages
MaxGroups == 2      \* dependency groups of a package entry
MaxMembers == 4     \* dependency members of a package entry, all groups
MaxDeps == 3        \* extracted dependencies handed to the filter
MaxFilterLen == 2   \* length of filter_substring

----------------------------------------------------------------------------
(* Strings *)

Absent == <<"<absent>">>
NonStr == <<"<not a str>">>
Empty == <<>>

\* isinstance(v, str)
IsStr(v) == v # NonStr /\ v # Absent

\* Python truthiness of a value read with dict.get (None and "" are falsy)
Truthy(v) == v # Absent /\ v # Empty

Whitespace == {" "}

UpperToLower ==
    [A |-> "a", B |-> "b", C |-> "c", D |-> "d", E |-> "e", F |-> "f", G |-> "g",
     H |-> "h", I |-> "i", J |-> "j", K |-> "k", L |-> "l", M |-> "m", N |-> "n",
     O |-> "o", P |-> "p", Q |-> "q", R |-> "r", S |-> "s", T |-> "t", U |-> "u",
     V |-> "v", W |-> "w", X |-> "x", Y |-> "y", Z |-> "z"]

LowerChar(c) == IF c \in DOMAIN UpperToLower THEN UpperToLower[c] ELSE c

\* str.lower()
Lower(s) == [i \in 1..Len(s) |-> LowerChar(s[i])]

RECURSIVE LStrip(_)
LStrip(s) ==
    IF s # Empty /\ Head(s) \in Whitespace THEN LStrip(Tail(s)) ELSE s

RECURSIVE RStrip(_)
RStrip(s) ==
    IF s # Empty /\ s[Len(s)] \in Whitespace
    THEN RStrip(SubSeq(s, 1, Len(s) - 1))
    ELSE s

\* str.strip()
Strip(s) == RStrip(LStrip(s))

\* sub in s
Contains(sub, s) ==
    \E i \in 0..Len(s) :
        i + Len(sub) <= Len(s) /\ SubSeq(s, i + 1, i + Len(sub)) = sub

\* the sequences over S of length at most n
RECURSIVE SeqsUpTo(_, _)
SeqsUpTo(S, n) ==
    IF n = 0 THEN {Empty}
    ELSE LET shorter == SeqsUpTo(S, n - 1)
         IN  shorter \cup {Append(s, x) : s \in shorter, x \in S}

\* dict.get(key, default) on a value read from a record
Get(v, default) == IF v = Absent THEN default ELSE v

\* a key that would hold a list and is not in the dict, and dict.get(key, [])
NoList == <<[absent |-> TRUE]>>
GetList(v) == IF v = NoList THEN Empty ELSE v

----------------------------------------------------------------------------
(* Exceptions *)

NoError == [err |-> "none", msg |-> Empty]
Raise(kind, message) == [err |-> kind, msg |-> message]

----------------------------------------------------------------------------
(* Configuration: _load_config, _validate_config *)

JsonExt == <<".", "j", "s", "o", "n">>

required_fields == <<"package_name", "repository_url", "package_version">>

NoConfig ==
    [package_name |-> Absent, repository_url |-> Absent,
     package_version |-> Absent, filter_substring |-> Absent]

\* lines 37-44 (output_image and test_mode are never read again and are left out)
default_config ==
    [package_name |-> <<"N", "e", "w", "t", "o", "n", "s", "o", "f", "t", ".",
                        "J", "s", "o", "n">>,
     repository_url |-> <<"h", "t", "t", "p", "s", ":", "/", "/", "a", "p", "i",
                          ".", "n", "u", "g", "e", "t", ".", "o", "r", "g", "/",
                          "v", "3", "/", "i", "n", "d", "e", "x">> \o JsonExt,
     package_version |-> <<"1", "3", ".", "0", ".", "3">>,
     filter_substring |-> Empty]

\* line 75
MissingFields(cfg) == SelectSeq(required_fields, LAMBDA f : cfg[f] = Absent)

\* lines 80, 84, 88: not isinstance(v, str) or not v.strip()
NotNonEmptyStr(v) == ~IsStr(v) \/ Strip(v) = Empty

\* _validate_config: the exception it raises, or the config it returns
_validate_config(cfg) ==
    IF MissingFields(cfg) # Empty
    THEN [exc |-> Raise("ConfigError", <<"required fields are missing: ">>
                                         \o MissingFields(cfg)),
          config |-> NoConfig]
    ELSE IF NotNonEmptyStr(cfg.package_name)
    THEN [exc |-> Raise("ConfigError",
                        <<"package_name", " must be a non-empty string">>),
          config |-> NoConfig]
    ELSE IF NotNonEmptyStr(cfg.repository_url)
    THEN [exc |-> Raise("ConfigError",
                        <<"repository_url", " must be a non-empty string">>),
          config |-> NoConfig]
    ELSE IF NotNonEmptyStr(cfg.package_version)
    THEN [exc |-> Raise("ConfigError",
                        <<"package_version", " must be a non-empty string">>),
          config |-> NoConfig]
    ELSE [exc |-> NoError,
          config |-> [cfg EXCEPT !.filter_substring = Get(@, Empty)]]

\* the body of the try of _load_config (lines 35-59): what it raises or
\* returns, and the file it leaves at config_path
LoadConfigTry(file) ==
    CASE file.kind = "missing" ->
             [exc |-> NoError, config |-> default_config,
              file |-> [kind |-> "object", obj |-> default_config]]
      [] file.kind = "unwritable" ->
             [exc |-> Raise("OSError", <<"cannot open for writing">>),
              config |-> NoConfig, file |-> file]
      [] file.kind = "malformed" ->
             [exc |-> Raise("JSONDecodeError", <<"expecting value">>),
              config |-> NoConfig, file |-> file]
      [] file.kind = "nonobject" ->
             [exc |-> Raise("AttributeError", <<"no attribute 'items'">>),
              config |-> NoConfig, file |-> file]
      [] file.kind = "object" ->
             [exc |-> _validate_config(file.obj).exc,
              config |-> _validate_config(file.obj).config, file |-> file]

\* variant: the handlers do not put the cause into the message
LoadConfigExceptDropsCause(e) ==
    IF e.err = "JSONDecodeError"
    THEN Raise("ConfigError", <<"JSON parse error">>)
    ELSE Raise("ConfigError", <<"error loading the configuration">>)

\* variant: only OSError is handled
LoadConfigExceptOSErrorOnly(e) ==
    IF e.err = "OSError"
    THEN Raise("ConfigError", <<"error loading the configuration: ">> \o e.msg)
    ELSE e

\* the except clauses of _load_config (lines 61-64)
LoadConfigExcept(e) ==
    IF e.err = "JSONDecodeError"
    THEN Raise("ConfigError", <<"JSON parse error: ">> \o e.msg)
    ELSE Raise("ConfigError", <<"error loading the configuration: ">> \o e.msg)

_load_config(file) ==
    LET r == LoadConfigTry(file)
    IN  IF r.exc.err = "none" THEN r
        ELSE [r EXCEPT !.exc = LoadConfigExcept(r.exc)]

----------------------------------------------------------------------------
(* Registry documents.  Strings the code only copies or compares whole     *)
(* (type tags, target frameworks, version ranges) are written as one token. *)

RegistrationsBaseUrl == <<"RegistrationsBaseUrl/3.6.0">>
Unknown == <<"Unknown">>

NoServiceIndex == [kind |-> "none", resources |-> NoList]
NoAltIndex == [kind |-> "none", items |-> NoList]

\* a catalogEntry: a dict, a str (a leaf's catalogEntry may be a URL), or
\* none at the key
Entry(version, groups) ==
    [kind |-> "dict", version |-> version, dependencyGroups |-> groups]
StrEntry == [kind |-> "str", version |-> Absent, dependencyGroups |-> NoList]
AbsentEntry == [kind |-> "absent", version |-> Absent, dependencyGroups |-> NoList]
NoPackage == [kind |-> "none", version |-> Absent, dependencyGroups |-> NoList]
EmptyDict == Entry(Absent, NoList)

\* an element of an `items` list: a page or a leaf
Item(entry, items) == [catalogEntry |-> entry, items |-> items]

\* a response to an HTTP GET
Ok(doc) == [status |-> "ok", doc |-> doc]
Failed(status) == [status |-> status, doc |-> [kind |-> "none"]]
HttpFailures == {Failed("http_error"), Failed("url_error"), Failed("bad_json")}

----------------------------------------------------------------------------
(* Registry client *)

\* _make_http_request and _get_json_from_url (lines 98-125) on a response
_get_json_from_url(url, resp) ==
    CASE resp.status = "http_error" ->
             [exc |-> Raise("NuGetError", <<"HTTP error for URL ">> \o url),
              doc |-> resp.doc]
      [] resp.status = "url_error" ->
             [exc |-> Raise("NuGetError", <<"connection error for URL ">> \o url),
              doc |-> resp.doc]
      [] resp.status = "bad_json" ->
             [exc |-> Raise("NuGetError", <<"JSON parse error from ">> \o url),
              doc |-> resp.doc]
      [] resp.status = "ok" -> [exc |-> NoError, doc |-> resp.doc]

\* _get_service_index (lines 127-133)
_get_service_index(url, resp) ==
    LET r == _get_json_from_url(url, resp)
    IN  IF r.exc.err = "none" THEN r
        ELSE [r EXCEPT !.exc = Raise("NuGetError",
                                     <<"error getting the service index: ">> \o @.msg)]

\* variant: the loop does not return at the first match
RECURSIVE LastServiceUrl(_, _)
LastServiceUrl(resources, service_type) ==
    IF resources = Empty THEN Absent
    ELSE LET later == LastServiceUrl(Tail(resources), service_type)
         IN  IF later # Absent THEN later
             ELSE IF Head(resources).type = service_type /\ Truthy(Head(resources).id)
             THEN Head(resources).id
             ELSE Absent

\* the loop of _find_service_url (lines 139-144): the url returned, or Absent
RECURSIVE FirstServiceUrl(_, _)
FirstServiceUrl(resources, service_type) ==
    IF resources = Empty THEN Absent
    ELSE IF Head(resources).type = service_type /\ Truthy(Head(resources).id)
    THEN Head(resources).id
    ELSE FirstServiceUrl(Tail(resources), service_type)

\* _find_service_url (lines 135-146)
_find_service_url(service_index, service_type) ==
    IF service_index.kind # "object"
    THEN [exc |-> Raise("AttributeError", <<"no attribute 'get'">>), url |-> Absent]
    ELSE LET url == FirstServiceUrl(GetList(service_index.resources), service_type)
         IN  IF url # Absent
             THEN [exc |-> NoError, url |-> url]
             ELSE [exc |-> Raise("NuGetError", <<"service not found in the index: ">>
                                               \o service_type),
                   url |-> Absent]

\* _get_package_registration_url (lines 148-158)
_get_package_registration_url(registration_base_url, package_name, version) ==
    registration_base_url \o Lower(package_name) \o <<"/">> \o version \o JsonExt

\* alt_url (line 202)
AltUrl(registration_base_url, package_name) ==
    registration_base_url \o Lower(package_name)
        \o <<"/", "i", "n", "d", "e", "x">> \o JsonExt

\* the first element of items that holds a catalogEntry (lines 175-179, 183-187)
RECURSIVE FirstCatalogEntry(_)
FirstCatalogEntry(items) ==
    IF items = Empty THEN AbsentEntry
    ELSE IF Head(items).catalogEntry.kind # "absent" THEN Head(items).catalogEntry
    ELSE FirstCatalogEntry(Tail(items))

\* lines 170-189 of _get_package_data on the parsed document
SelectCatalogEntry(registration_data) ==
    IF registration_data.kind # "object"
    THEN [exc |-> Raise("AttributeError", <<"no attribute 'get'">>),
          entry |-> NoPackage]
    ELSE LET items == GetList(registration_data.items)
         IN  IF items = Empty
             THEN [exc |-> Raise("NuGetError", <<"no data about the package">>),
                   entry |-> NoPackage]
             ELSE IF FirstCatalogEntry(items).kind # "absent"
             THEN [exc |-> NoError, entry |-> FirstCatalogEntry(items)]
             ELSE IF items[1].items # NoList
                     /\ FirstCatalogEntry(items[1].items).kind # "absent"
             THEN [exc |-> NoError, entry |-> FirstCatalogEntry(items[1].items)]
             ELSE [exc |-> Raise("NuGetError", <<"could not extract catalogEntry">>),
                   entry |-> NoPackage]

\* the except clauses of _get_package_data (lines 191-194)
PackageDataExcept(e) ==
    IF e.err = "NuGetError" THEN e
    ELSE Raise("NuGetError", <<"error getting the package data: ">> \o e.msg)

\* _get_package_data (lines 160-194) on the response to its request
_get_package_data(url, resp) ==
    LET got == _get_json_from_url(url, resp)
        r == IF got.exc.err # "none"
             THEN [exc |-> got.exc, entry |-> NoPackage]
             ELSE SelectCatalogEntry(got.doc)
    IN  IF r.exc.err = "none" THEN r
        ELSE [r EXCEPT !.exc = PackageDataExcept(@)]

\* variant: only the first page is searched
LeavesOfFirstPage(items) ==
    IF items = Empty THEN Empty ELSE GetList(Head(items).items)

\* the leaves of all pages in page order (the nesting of the loops at 210-212)
RECURSIVE Leaves(_)
Leaves(items) ==
    IF items = Empty THEN Empty
    ELSE GetList(Head(items).items) \o Leaves(Tail(items))

\* lines 210-216: the first leaf whose catalogEntry has the version; reading
\* the version of a catalogEntry that is no dict raises AttributeError
RECURSIVE FindVersion(_, _)
FindVersion(leaves, version) ==
    IF leaves = Empty THEN [exc |-> NoError, entry |-> AbsentEntry]
    ELSE LET catalog_entry ==
                 IF Head(leaves).catalogEntry.kind = "absent" THEN EmptyDict
                 ELSE Head(leaves).catalogEntry
         IN  IF catalog_entry.kind # "dict"
             THEN [exc |-> Raise("AttributeError", <<"no attribute 'get'">>),
                   entry |-> NoPackage]
             ELSE IF catalog_entry.version = version
             THEN [exc |-> NoError, entry |-> catalog_entry]
             ELSE FindVersion(Tail(leaves), version)

\* lines 219-225: the first leaf of the first page that has leaves
RECURSIVE FirstAvailable(_)
FirstAvailable(items) ==
    IF items = Empty THEN [exc |-> NoError, entry |-> AbsentEntry]
    ELSE LET items_list == GetList(Head(items).items)
         IN  IF items_list # Empty
             THEN IF items_list[1].catalogEntry.kind = "absent"
                  THEN [exc |-> NoError, entry |-> EmptyDict]
                  ELSE IF items_list[1].catalogEntry.kind # "dict"
                  THEN [exc |-> Raise("AttributeError", <<"no attribute 'get'">>),
                        entry |-> NoPackage]
                  ELSE [exc |-> NoError, entry |-> items_list[1].catalogEntry]
             ELSE FirstAvailable(Tail(items))

\* lines 207-227 of _try_alternative_registration_url on the parsed document
SelectFromIndex(index_data, version) ==
    IF index_data.kind # "object"
    THEN [exc |-> Raise("AttributeError", <<"no attribute 'get'">>),
          entry |-> NoPackage]
    ELSE LET items == GetList(index_data.items)
             exact == FindVersion(Leaves(items), version)
             first == FirstAvailable(items)
         IN  IF exact.exc.err # "none" \/ exact.entry.kind # "absent" THEN exact
             ELSE IF first.exc.err # "none" \/ first.entry.kind # "absent" THEN first
             ELSE [exc |-> Raise("NuGetError",
                                 <<"package not found through the alternative URL">>),
                   entry |-> NoPackage]

\* _try_alternative_registration_url (lines 196-230) on the response
_try_alternative_registration_url(url, resp, version) ==
    LET got == _get_json_from_url(url, resp)
        r == IF got.exc.err # "none"
             THEN [exc |-> got.exc, entry |-> NoPackage]
             ELSE SelectFromIndex(got.doc, version)
    IN  IF r.exc.err = "none" THEN r
        ELSE [r EXCEPT !.exc = Raise("NuGetError",
                                     <<"the alternative method failed too: ">> \o @.msg)]

----------------------------------------------------------------------------
(* Dependency extractor and filter *)

Group(target_framework, deps) ==
    [dict |-> TRUE, targetFramework |-> target_framework, dependencies |-> deps]
Member(id, packageId, range, version) ==
    [dict |-> TRUE, id |-> id, packageId |-> packageId, range |-> range,
     version |-> version]
\* a list element that is no dict (lines 248, 258)
NonDictGroup == [dict |-> FALSE, targetFramework |-> Absent, dependencies |-> NoList]
NonDictMember ==
    [dict |-> FALSE, id |-> Absent, packageId |-> Absent, range |-> Absent,
     version |-> Absent]

\* lines 262-263
DepId(dep) == Get(dep.id, Empty)

\* lines 263-266
DepRange(dep) ==
    IF Truthy(Get(dep.range, Empty)) THEN dep.range ELSE Get(dep.version, Empty)

\* variant: the records are put in front of the list
RECURSIVE GroupDependenciesReversed(_, _)
GroupDependenciesReversed(group_dependencies, target_framework) ==
    IF group_dependencies = Empty THEN Empty
    ELSE LET dep == Head(group_dependencies)
             rest == GroupDependenciesReversed(Tail(group_dependencies),
                                               target_framework)
         IN  IF dep.dict /\ Truthy(DepId(dep))
             THEN rest \o <<[id |-> DepId(dep), version_range |-> DepRange(dep),
                             target_framework |-> target_framework]>>
             ELSE rest

\* lines 257-275: the records one group's members add
RECURSIVE GroupDependencies(_, _)
GroupDependencies(group_dependencies, target_framework) ==
    IF group_dependencies = Empty THEN Empty
    ELSE LET dep == Head(group_dependencies)
             rest == GroupDependencies(Tail(group_dependencies), target_framework)
         IN  IF dep.dict /\ Truthy(DepId(dep))
             THEN <<[id |-> DepId(dep), version_range |-> DepRange(dep),
                     target_framework |-> target_framework]>> \o rest
             ELSE rest

\* lines 247-275: the records the groups add
RECURSIVE GroupsDependencies(_)
GroupsDependencies(dependency_groups) ==
    IF dependency_groups = Empty THEN Empty
    ELSE LET group == Head(dependency_groups)
             rest == GroupsDependencies(Tail(dependency_groups))
         IN  IF group.dict
             THEN GroupDependencies(GetList(group.dependencies),
                                    Get(group.targetFramework, Unknown)) \o rest
             ELSE rest

\* _extract_dependencies (lines 232-287)
_extract_dependencies(package_data) ==
    IF package_data.kind # "dict"
    THEN [exc |-> Raise("AttributeError", <<"no attribute 'keys'">>), deps |-> Empty]
    ELSE [exc |-> NoError,
          deps |-> GroupsDependencies(GetList(package_data.dependencyGroups))]

\* variant: the id is not lowered
KeepsCaseSensitive(filter_str, dep) == Contains(filter_str, dep.id)

\* line 319
Keeps(filter_str, dep) == Contains(filter_str, Lower(dep.id))

\* lines 315-321 of get_dependencies
ApplyFilter(cfg, deps) ==
    IF ~Truthy(cfg.filter_substring) THEN [exc |-> NoError, deps |-> deps]
    ELSE IF ~IsStr(cfg.filter_substring)
    THEN [exc |-> Raise("AttributeError", <<"no attribute 'lower'">>), deps |-> Empty]
    ELSE [exc |-> NoError,
          deps |-> SelectSeq(deps,
                             LAMBDA dep : Keeps(Lower(cfg.filter_substring), dep))]

----------------------------------------------------------------------------
(* get_dependencies, step by step *)

Request(kind, url) == [kind |-> kind, url |-> url]

\* variant: a failed fetch of the service index is tried again
GetServiceIndexRetrying(responses) ==
    /\ pc = "run"
    /\ Len(requests) < 3
    /\ \E resp \in responses :
        LET url == config.repository_url
            r == _get_service_index(url, resp)
        IN  /\ requests' = Append(requests, Request("service_index", url))
            /\ IF r.exc.err = "none"
               THEN /\ serviceIndex' = r.doc
                    /\ pc' = "find_service"
               ELSE /\ pc' = "run"
                    /\ UNCHANGED serviceIndex
    /\ UNCHANGED <<configFile, config, serviceType, registrationBaseUrl, altIndex,
                   packageData, extracted, dependencies, depsAssigned, displayed,
                   primaryFailed, raised, caughtBy, exitCode>>

\* line 298: service_index = self._get_service_index()
GetServiceIndex(responses) ==
    /\ pc = "run"
    /\ \E resp \in responses :
        LET url == config.repository_url
            r == _get_service_index(url, resp)
        IN  /\ requests' = Append(requests, Request("service_index", url))
            /\ IF r.exc.err = "none"
               THEN /\ serviceIndex' = r.doc
                    /\ pc' = "find_service"
                    /\ UNCHANGED raised
               ELSE /\ raised' = r.exc
                    /\ pc' = "raised_run"
                    /\ UNCHANGED serviceIndex
    /\ UNCHANGED <<configFile, config, serviceType, registrationBaseUrl, altIndex,
                   packageData, extracted, dependencies, depsAssigned, displayed,
                   primaryFailed, caughtBy, exitCode>>

\* line 301: registration_base_url = self._find_service_url(...)
FindService ==
    /\ pc = "find_service"
    /\ LET r == _find_service_url(serviceIndex, serviceType)
       IN  IF r.exc.err = "none"
           THEN /\ registrationBaseUrl' = r.url
                /\ pc' = "get_package"
                /\ UNCHANGED raised
           ELSE /\ raised' = r.exc
                /\ pc' = "raised_run"
                /\ UNCHANGED registrationBaseUrl
    /\ UNCHANGED <<configFile, config, serviceType, serviceIndex, altIndex,
                   packageData, extracted, dependencies, depsAssigned, displayed,
                   requests, primaryFailed, caughtBy, exitCode>>

\* lines 304-308: package_data = self._get_package_data(...), except NuGetError
GetPackageData(responses) ==
    /\ pc = "get_package"
    /\ \E resp \in responses :
        LET url == _get_package_registration_url(registrationBaseUrl,
                       config.package_name, config.package_version)
            r == _get_package_data(url, resp)
        IN  /\ requests' = Append(requests, Request("package_version", url))
            /\ IF r.exc.err = "none"
               THEN /\ packageData' = r.entry
                    /\ pc' = "extract"
                    /\ UNCHANGED <<primaryFailed, raised>>
               ELSE IF r.exc.err = "NuGetError"
               THEN /\ primaryFailed' = TRUE
                    /\ pc' = "alternative"
                    /\ UNCHANGED <<packageData, raised>>
               ELSE /\ raised' = r.exc
                    /\ pc' = "raised_run"
                    /\ UNCHANGED <<packageData, primaryFailed>>
    /\ UNCHANGED <<configFile, config, serviceType, serviceIndex,
                   registrationBaseUrl, altIndex, extracted, dependencies,
                   depsAssigned, displayed, caughtBy, exitCode>>

\* lines 309-310: package_data = self._try_alternative_registration_url(...)
TryAlternative(responses) ==
    /\ pc = "alternative"
    /\ \E resp \in responses :
        LET url == AltUrl(registrationBaseUrl, config.package_name)
            r == _try_alternative_registration_url(url, resp, config.package_version)
        IN  /\ requests' = Append(requests, Request("package_index", url))
            /\ altIndex' = IF resp.status = "ok" THEN resp.doc ELSE altIndex
            /\ IF r.exc.err = "none"
               THEN /\ packageData' = r.entry
                    /\ pc' = "extract"
                    /\ UNCHANGED raised
               ELSE /\ raised' = r.exc
                    /\ pc' = "raised_run"
                    /\ UNCHANGED packageData
    /\ UNCHANGED <<configFile, config, serviceType, serviceIndex,
                   registrationBaseUrl, extracted, dependencies, depsAssigned,
                   displayed, primaryFailed, caughtBy, exitCode>>

\* line 313: dependencies = self._extract_dependencies(package_data)
Extract ==
    /\ pc = "extract"
    /\ LET r == _extract_dependencies(packageData)
       IN  IF r.exc.err = "none"
           THEN /\ extracted' = r.deps
                /\ pc' = "filter"
                /\ UNCHANGED raised
           ELSE /\ raised' = r.exc
                /\ pc' = "raised_run"
                /\ UNCHANGED extracted
    /\ UNCHANGED <<configFile, config, serviceType, serviceIndex,
                   registrationBaseUrl, altIndex, packageData, dependencies,
                   depsAssigned, displayed, requests, primaryFailed, caughtBy,
                   exitCode>>

\* lines 315-324: the filter, self.dependencies = dependencies, return
FilterAndStore ==
    /\ pc = "filter"
    /\ LET r == ApplyFilter(config, extracted)
       IN  IF r.exc.err = "none"
           THEN /\ dependencies' = r.deps
                /\ depsAssigned' = TRUE
                /\ pc' = "display"
                /\ UNCHANGED raised
           ELSE /\ raised' = r.exc
                /\ pc' = "raised_run"
                /\ UNCHANGED <<dependencies, depsAssigned>>
    /\ UNCHANGED <<configFile, config, serviceType, serviceIndex,
                   registrationBaseUrl, altIndex, packageData, extracted,
                   displayed, requests, primaryFailed, caughtBy, exitCode>>

----------------------------------------------------------------------------
(* run() *)

\* lines 355-358, then run() and main() return
Display ==
    /\ pc = "display"
    /\ displayed' = TRUE
    /\ pc' = "exit"
    /\ exitCode' = 0
    /\ UNCHANGED <<configFile, config, serviceType, serviceIndex,
                   registrationBaseUrl, altIndex, packageData, extracted,
                   dependencies, depsAssigned, requests, primaryFailed, raised,
                   caughtBy>>

\* the except clause of run() that an exception reaches (lines 360-370)
RunHandler(err) ==
    CASE err = "ConfigError" -> "except ConfigError"
      [] err = "NuGetError" -> "except NuGetError"
      [] OTHER -> "except Exception"

\* variant: the last clause does not call sys.exit(1)
HandlerExitCodeZero(handler) == IF handler = "except Exception" THEN 0 ELSE 1

\* sys.exit(1) at lines 362, 365, 370
HandlerExitCode(handler) == 1

\* the exception re-raised by get_dependencies (line 328) reaches run()'s try
RunExcept ==
    /\ pc = "raised_run"
    /\ caughtBy' = RunHandler(raised.err)
    /\ exitCode' = HandlerExitCode(RunHandler(raised.err))
    /\ pc' = "exit"
    /\ UNCHANGED <<configFile, config, serviceType, serviceIndex,
                   registrationBaseUrl, altIndex, packageData, extracted,
                   dependencies, depsAssigned, displayed, requests, primaryFailed,
                   raised>>

----------------------------------------------------------------------------
(* main() and DependencyVisualizer.__init__ *)

\* main() line 383: DependencyVisualizer(config_path), i.e. __init__ (27-30);
\* main() then calls run() (line 384)
Construct ==
    /\ pc = "main"
    /\ LET r == _load_config(configFile)
       IN  /\ configFile' = r.file
           /\ IF r.exc.err = "none"
              THEN /\ config' = r.config
                   /\ dependencies' = Empty
                   /\ pc' = "run"
                   /\ UNCHANGED raised
              ELSE /\ raised' = r.exc
                   /\ pc' = "raised_main"
                   /\ UNCHANGED <<config, dependencies>>
    /\ UNCHANGED <<serviceType, serviceIndex, registrationBaseUrl, altIndex,
                   packageData, extracted, depsAssigned, displayed, requests,
                   primaryFailed, caughtBy, exitCode>>

\* an exception raised by line 383 is inside no try: it leaves main() and the
\* interpreter prints the traceback and ends the process with status 1
Propagate ==
    /\ pc = "raised_main"
    /\ pc' = "exit"
    /\ exitCode' = 1
    /\ UNCHANGED <<configFile, config, serviceType, serviceIndex,
                   registrationBaseUrl, altIndex, packageData, extracted,
                   dependencies, depsAssigned, displayed, requests,
                   primaryFailed, raised, caughtBy>>

----------------------------------------------------------------------------
(* Inputs: config files *)

ConfigChars == {" ", "a"}
ConfigStrings == SeqsUpTo(ConfigChars, MaxStrLen)
FieldValues == {Absent, NonStr} \cup ConfigStrings

ConfigObjects(names, urls, versions, filters) ==
    [package_name : names, repository_url : urls,
     package_version : versions, filter_substring : filters]

ObjectFile(obj) == [kind |-> "object", obj |-> obj]

NoObjectFiles ==
    {[kind |-> k, obj |-> NoConfig] :
        k \in {"missing", "unwritable", "malformed", "nonobject"}}

ConfigFiles ==
    NoObjectFiles \cup
    {ObjectFile(o) :
        o \in ConfigObjects(FieldValues, FieldValues, FieldValues, {Absent, Empty})}

V1 == <<"1">>
V2 == <<"2">>
IndexWord == <<"i", "n", "d", "e", "x">>
MockName == <<"P", "k">>
MockRepositoryUrl == <<"r">>
BaseUrl1 == <<"r", "/">>
BaseUrl2 == <<"s", "/">>

\* the objects of the config files of a whole run
MockObjects ==
    ConfigObjects({Absent, MockName}, {MockRepositoryUrl}, {V1, IndexWord},
                  {Absent, <<"j">>, NonStr})

MockConfigFiles == NoObjectFiles \cup {ObjectFile(o) : o \in MockObjects}

\* the valid objects among them
ValidMockObjects == {o \in MockObjects : _validate_config(o).exc.err = "none"}

----------------------------------------------------------------------------
(* Inputs: registry documents *)

ServiceTypes == {RegistrationsBaseUrl, <<"SearchQueryService">>}

Resource(type, id) == [type |-> type, id |-> id]

Resources ==
    {Resource(t, i) : t \in ServiceTypes \cup {Absent},
                      i \in {Absent, Empty, BaseUrl1, BaseUrl2}}

ServiceIndex(resources) == [kind |-> "object", resources |-> resources]
NonObject == [kind |-> "nonobject", resources |-> NoList, items |-> NoList]

ServiceIndexes ==
    {NonObject, ServiceIndex(NoList)}
    \cup {ServiceIndex(r) : r \in SeqsUpTo(Resources, MaxResources)}

MockServiceIndex == ServiceIndex(<<Resource(RegistrationsBaseUrl, BaseUrl1)>>)

MockServiceIndexes == {NonObject, ServiceIndex(NoList), MockServiceIndex}

ItemsDoc(items) == [kind |-> "object", items |-> items]

Range1 == <<"[1.0, )">>
Version1 == <<"2.0">>
Framework1 == <<"net6.0">>

FilterChars == {"j", "J", "s"}
FilterIds ==
    {<<"N", ".", "J", "s">>, <<"S", "t">>, <<"M", "j", "S", "x">>, <<"s", "j">>}

\* the catalog entries of the documents of a whole run
MockEntries ==
    {StrEntry, Entry(V1, NoList),
     Entry(V1, <<Group(Framework1,
                       <<Member(<<"N", ".", "J", "s">>, Absent, Range1, Absent),
                         Member(<<"S", "t">>, Absent, Absent, Version1)>>)>>)}

MockRegistrations ==
    {NonObject, ItemsDoc(NoList), ItemsDoc(<<Item(AbsentEntry, NoList)>>)}
    \cup {ItemsDoc(<<Item(e, NoList)>>) : e \in MockEntries}
    \cup {ItemsDoc(<<Item(AbsentEntry, <<Item(e, NoList)>>)>>) : e \in MockEntries}

MockAltIndexes ==
    {NonObject, ItemsDoc(NoList)}
    \cup {ItemsDoc(<<Item(AbsentEntry, <<Item(e, NoList)>>)>>) :
            e \in MockEntries \cup {Entry(V2, NoList)}}

Responses(docs) == HttpFailures \cup {Ok(d) : d \in docs}

\* leaves of an index-of-versions document
AltEntries == {AbsentEntry, StrEntry} \cup {Entry(v, NoList) : v \in {Absent, V1, V2}}
AltLeaves == {Item(e, NoList) : e \in AltEntries}

\* the lists of at most n pages that hold at most budget leaves
RECURSIVE PageLists(_, _)
PageLists(n, budget) ==
    IF n = 0 THEN {Empty}
    ELSE {Empty}
         \cup {<<Item(AbsentEntry, NoList)>> \o rest : rest \in PageLists(n - 1, budget)}
         \cup UNION {{<<Item(AbsentEntry, leaves)>> \o rest :
                         rest \in PageLists(n - 1, budget - Len(leaves))} :
                     leaves \in SeqsUpTo(AltLeaves, budget)}

AltIndexes ==
    {NonObject, ItemsDoc(NoList)}
    \cup {ItemsDoc(pages) : pages \in PageLists(MaxPages, MaxEntries)}


\* members of package entries
IdA == <<"N", ".", "J", "s">>
IdB == <<"S", "t">>
PackageId1 == <<"M", "j", "S", "x">>

PlainMembers ==
    {Member(IdA, Absent, Range1, Absent), Member(IdB, Absent, Absent, Version1)}

ShapedMembers ==
    {NonDictMember}
    \cup {Member(i, p, r, v) : i \in {Absent, Empty, IdA}, p \in {Absent, PackageId1},
                               r \in {Absent, Empty, Range1}, v \in {Absent, Version1}}

Frameworks == {Absent, Framework1}

\* the lists of at most n groups that hold at most budget members
RECURSIVE GroupLists(_, _)
GroupLists(n, budget) ==
    IF n = 0 THEN {Empty}
    ELSE {Empty}
         \cup UNION {{<<Group(tf, members)>> \o rest :
                         tf \in Frameworks,
                         rest \in GroupLists(n - 1, budget - Len(members))} :
                     members \in SeqsUpTo(PlainMembers, budget)}

PackageEntries ==
    {StrEntry, Entry(V1, NoList)}
    \cup {Entry(V1, groups) : groups \in GroupLists(MaxGroups, MaxMembers)}
    \cup {Entry(V1, <<Group(tf, <<m>>)>>) : tf \in Frameworks, m \in ShapedMembers}
    \cup {Entry(V1, <<NonDictGroup, Group(Framework1, <<m>>)>>) : m \in PlainMembers}
    \cup {Entry(V1, <<Group(tf, NoList), Group(Framework1, <<m>>)>>) :
            tf \in Frameworks, m \in PlainMembers}
    \cup {Entry(V1, <<Group(Framework1, <<a, m, b>>), Group(Absent, <<a>>)>>) :
            a \in PlainMembers, b \in PlainMembers, m \in ShapedMembers}

\* extracted dependency lists, and a package entry each is extracted from
Dep(id) == [id |-> id, version_range |-> Range1, target_framework |-> Unknown]
DepLists == SeqsUpTo({Dep(i) : i \in FilterIds}, MaxDeps)
EntryOf(deps) ==
    Entry(V1, <<Group(Absent, [i \in 1..Len(deps) |->
                                   Member(deps[i].id, Absent, Range1, Absent)])>>)

FilterValues == {Absent, NonStr} \cup SeqsUpTo(FilterChars, MaxFilterLen)

----------------------------------------------------------------------------
(* Specifications *)

\* a state of the run at position p, the config loaded from the object obj
MidRun(p, obj, type, index, base, alt, package, deps, reqs, failed) ==
    /\ pc = p
    /\ configFile = ObjectFile(obj)
    /\ config = _validate_config(obj).config
    /\ serviceType = type
    /\ serviceIndex = index
    /\ registrationBaseUrl = base
    /\ altIndex = alt
    /\ packageData = package
    /\ extracted = deps
    /\ dependencies = Empty
    /\ depsAssigned = FALSE
    /\ displayed = FALSE
    /\ requests = reqs
    /\ primaryFailed = failed
    /\ raised = NoError
    /\ caughtBy = "none"
    /\ exitCode = -1

\* the state before main() runs, with the given file at config_path
Start(file) ==
    /\ pc = "main"
    /\ configFile = file
    /\ config = NoConfig
    /\ serviceType = RegistrationsBaseUrl
    /\ serviceIndex = NoServiceIndex
    /\ registrationBaseUrl = Absent
    /\ altIndex = NoAltIndex
    /\ packageData = NoPackage
    /\ extracted = Empty
    /\ dependencies = Empty
    /\ depsAssigned = FALSE
    /\ displayed = FALSE
    /\ requests = Empty
    /\ primaryFailed = FALSE
    /\ raised = NoError
    /\ caughtBy = "none"
    /\ exitCode = -1

\* the requests made before the package lookups, and before extraction
IndexRequest(obj) == <<Request("service_index", obj.repository_url)>>
PackageRequests(obj) ==
    IndexRequest(obj)
    \o <<Request("package_version",
                 _get_package_registration_url(BaseUrl1, obj.package_name,
                                               obj.package_version))>>

PlainObjects == ConfigObjects({MockName}, {MockRepositoryUrl}, {V1, IndexWord}, {Absent})
PlainObject == CHOOSE o \in PlainObjects : o.package_version = V1

\* a whole run of main() against a mock registry
Init == \E file \in MockConfigFiles : Start(file)
Next ==
    \/ Construct
    \/ Propagate
    \/ GetServiceIndex(Responses(MockServiceIndexes))
    \/ FindService
    \/ GetPackageData(Responses(MockRegistrations))
    \/ TryAlternative(Responses(MockAltIndexes))
    \/ Extract
    \/ FilterAndStore
    \/ Display
    \/ RunExcept
Spec == Init /\ [][Next]_vars

\* the config loader on every config file
InitConfig == \E file \in ConfigFiles : Start(file)
NextConfig == Construct \/ Propagate
SpecConfig == InitConfig /\ [][NextConfig]_vars

\* _find_service_url on every service index and type tag
InitService ==
    \E type \in ServiceTypes :
        MidRun("run", PlainObject, type, NoServiceIndex, Absent, NoAltIndex,
               NoPackage, Empty, Empty, FALSE)
NextService ==
    \/ GetServiceIndex(Responses(ServiceIndexes))
    \/ FindService
    \/ RunExcept
SpecService == InitService /\ [][NextService]_vars

\* the alternate lookup on every index-of-versions document
InitAlt ==
    \E obj \in PlainObjects :
        MidRun("alternative", obj, RegistrationsBaseUrl, MockServiceIndex, BaseUrl1,
               NoAltIndex, NoPackage, Empty, PackageRequests(obj), TRUE)
NextAlt ==
    \/ TryAlternative(Responses(AltIndexes))
    \/ RunExcept
SpecAlt == InitAlt /\ [][NextAlt]_vars

\* the extractor on every package entry
InitExtract ==
    \E package \in PackageEntries :
        MidRun("extract", PlainObject, RegistrationsBaseUrl, MockServiceIndex,
               BaseUrl1, NoAltIndex, package, Empty, PackageRequests(PlainObject),
               FALSE)
NextExtract ==
    \/ Extract
    \/ FilterAndStore
    \/ Display
    \/ RunExcept
SpecExtract == InitExtract /\ [][NextExtract]_vars

\* the filter on every extracted list and filter_substring
InitFilter ==
    \E deps \in DepLists, f \in FilterValues :
        LET obj == [PlainObject EXCEPT !.filter_substring = f]
        IN  MidRun("filter", obj, RegistrationsBaseUrl, MockServiceIndex, BaseUrl1,
                   NoAltIndex, EntryOf(deps), deps, PackageRequests(obj), FALSE)
NextFilter ==
    \/ FilterAndStore
    \/ Display
    \/ RunExcept
SpecFilter == InitFilter /\ [][NextFilter]_vars

----------------------------------------------------------------------------
(* Claims: vocabulary *)

Range(seq) == {seq[i] : i \in 1..Len(seq)}
Present(v) == v # Absent /\ v # Empty

\* out holds exactly the elements of seq at the indexes in kept, in order
IsSelection(out, seq, kept) ==
    /\ Len(out) = Cardinality(kept)
    /\ \A i \in kept : out[Cardinality({j \in kept : j <= i})] = seq[i]

\* Construct has run
Loaded == pc # "main"

----------------------------------------------------------------------------
(* C1 *)

\* C1: every ConfigurationError and every RegistryError of a run started
\* through main() is caught by run()'s handler and ends the process with
\* exit code 1; neither leaves main() uncaught.
C1_ErrorsCaughtAtTopLevel ==
    (pc = "exit" /\ raised.err \in {"ConfigError", "NuGetError"})
        => /\ caughtBy \in {"except ConfigError", "except NuGetError"}
           /\ exitCode = 1

----------------------------------------------------------------------------
(* C2, C3: the config loader *)

FileIsObject == configFile.kind = "object"
FieldOf(f) == configFile.obj[f]
RequiredFieldNames == {"package_name", "repository_url", "package_version"}
HasNonWhitespace(v) == \E i \in 1..Len(v) : v[i] \notin Whitespace
LoadSucceeded ==
    /\ pc = "run"
    /\ raised = NoError
    /\ \A f \in RequiredFieldNames : config[f] = FieldOf(f)
MissingFieldNamed ==
    \A f \in RequiredFieldNames :
        (/\ FieldOf(f) = Absent
         /\ \A g \in RequiredFieldNames \ {f} : FieldOf(g) # Absent)
            => /\ raised.err = "ConfigError"
               /\ f \in Range(raised.msg)

\* C2 as stated: a config object whose three required fields are non-empty
\* strings loads without error, and one that lacks exactly one of them
\* raises ConfigurationError naming that field.
C2_NonEmptyStringsLoad ==
    (Loaded /\ FileIsObject)
        => /\ (\A f \in RequiredFieldNames : IsStr(FieldOf(f)) /\ FieldOf(f) # Empty)
                  => LoadSucceeded
           /\ MissingFieldNamed

\* C2 amended: a config object whose three required fields are strings with
\* at least one non-whitespace character loads without error, and one that
\* lacks exactly one of them raises ConfigurationError naming that field.
C2_NonBlankStringsLoad ==
    (Loaded /\ FileIsObject)
        => /\ (\A f \in RequiredFieldNames :
                   IsStr(FieldOf(f)) /\ HasNonWhitespace(FieldOf(f)))
                  => LoadSucceeded
           /\ MissingFieldNamed

C2_Witness ==
    /\ LoadSucceeded
    /\ FileIsObject
    /\ FieldOf("package_name") = <<" ", "a">>
    /\ FieldOf("filter_substring") = Absent

\* C3: loading a config file that is not well-formed JSON raises
\* ConfigurationError and no other exception kind.
C3_MalformedJsonIsConfigError ==
    (Loaded /\ configFile.kind = "malformed")
        => /\ raised.err = "ConfigError"
           /\ pc \in {"raised_main", "exit"}

C3_Witness ==
    /\ pc = "raised_main"
    /\ configFile.kind = "malformed"
    /\ raised.err = "ConfigError"

----------------------------------------------------------------------------
(* C4, C5: the dependency extractor *)

\* Extract has run and returned
Extracted == pc \in {"filter", "display", "exit"} /\ raised.err = "none"

EntryGroups == GetList(packageData.dependencyGroups)
MembersOf(g) == GetList(EntryGroups[g].dependencies)
MemberAt(p) == MembersOf(p[1])[p[2]]
TagOf(g) ==
    IF EntryGroups[g].targetFramework = Absent THEN Unknown
    ELSE EntryGroups[g].targetFramework

\* the dependency members of the entry, as <<group index, member index>>
MemberPositions ==
    UNION {{<<g, m>> : m \in 1..Len(MembersOf(g))} : g \in 1..Len(EntryGroups)}
\* those that are dicts with a non-empty id
IdPositions ==
    {p \in MemberPositions : MemberAt(p).dict /\ Present(MemberAt(p).id)}
Before(p, q) == p[1] < q[1] \/ (p[1] = q[1] /\ p[2] <= q[2])

\* extracted holds one record per position of kept, in group order then
\* member order, each with its group's tag
OneRecordPer(kept) ==
    /\ Len(extracted) = Cardinality(kept)
    /\ \A p \in kept :
        LET k == Cardinality({q \in kept : Before(q, p)})
        IN  /\ extracted[k].target_framework = TagOf(p[1])
            /\ MemberAt(p).dict => extracted[k].id = Get(MemberAt(p).id, Empty)

ClaimedId(member) == IF member.id # Absent THEN member.id ELSE member.packageId
ClaimedRange(member) ==
    IF Present(member.range) THEN member.range ELSE Get(member.version, Empty)

\* C4: the output id of a member is its `id` or, when that is absent, its
\* `packageId`; the output range is its `range` or, when that is absent or
\* empty, its `version`; a member with only `packageId` yields a record.
C4_EitherKeyAccepted ==
    (Extracted /\ packageData.kind = "dict")
        => \A p \in MemberPositions :
               (MemberAt(p).dict /\ Present(ClaimedId(MemberAt(p))))
                   => \E k \in 1..Len(extracted) :
                          extracted[k] =
                              [id |-> ClaimedId(MemberAt(p)),
                               version_range |-> ClaimedRange(MemberAt(p)),
                               target_framework |-> TagOf(p[1])]

\* the entry is a dict: extraction raises nothing
ExtractionRaisesNothing == (packageData.kind = "dict" /\ pc # "extract") => raised.err = "none"

----------------------------------------------------------------------------
(* C6: the filter *)

SameLetter(a, b) == LowerChar(a) = LowerChar(b)
ContainsIgnoringCase(sub, s) ==
    \E offset \in 0..Len(s) :
        /\ offset + Len(sub) <= Len(s)
        /\ \A k \in 1..Len(sub) : SameLetter(sub[k], s[offset + k])

ConfiguredFilter == configFile.obj.filter_substring

\* C6: with a non-empty filter_substring get_dependencies returns exactly the
\* extracted dependencies whose id contains it, case ignored, in the original
\* order; with an empty or absent one it returns the extracted list unchanged.
C6_FilterKeepsMatchingIds ==
    depsAssigned
        => IF IsStr(ConfiguredFilter) /\ ConfiguredFilter # Empty
           THEN IsSelection(dependencies, extracted,
                    {i \in 1..Len(extracted) :
                        ContainsIgnoringCase(ConfiguredFilter, extracted[i].id)})
           ELSE dependencies = extracted

\* "js" over N.Js, St, MjSx keeps the first and the third
C6_Witness ==
    /\ depsAssigned
    /\ ConfiguredFilter = <<"j", "s">>
    /\ extracted = <<Dep(IdA), Dep(IdB), Dep(PackageId1)>>
    /\ dependencies = <<Dep(IdA), Dep(PackageId1)>>

----------------------------------------------------------------------------
(* C7: _find_service_url *)

\* FindService has run on a service index that is a JSON object
ServiceLookedUp ==
    /\ serviceIndex.kind = "object"
    /\ pc \notin {"run", "find_service"}
IndexResources == GetList(serviceIndex.resources)
TypeMatches == {i \in 1..Len(IndexResources) : IndexResources[i].type = serviceType}
UsableMatches == {i \in TypeMatches : Present(IndexResources[i].id)}
First(indexes) == CHOOSE i \in indexes : \A j \in indexes : i <= j
LookupFailed == raised.err = "NuGetError" /\ registrationBaseUrl = Absent

\* C7 as stated: findServiceUrl returns the id of the first resource whose
\* type equals the tag whenever the index has a resource with that type, and
\* fails with RegistryError if and only if the type tag is absent.
C7_FirstResourceOfType ==
    ServiceLookedUp
        => /\ TypeMatches # {}
               => /\ raised.err = "none"
                  /\ registrationBaseUrl = IndexResources[First(TypeMatches)].id
           /\ LookupFailed <=> TypeMatches = {}

\* C7 amended: findServiceUrl returns the id of the first resource whose type
\* equals the tag and whose id is non-empty whenever the index has such a
\* resource, and fails with RegistryError if and only if it has none.
C7_FirstUsableResourceOfType ==
    ServiceLookedUp
        => /\ UsableMatches # {}
               => /\ raised.err = "none"
                  /\ registrationBaseUrl = IndexResources[First(UsableMatches)].id
           /\ LookupFailed <=> UsableMatches = {}

\* the first resource of the type has an empty id, the second is returned
C7_Witness ==
    /\ ServiceLookedUp
    /\ pc = "get_package"
    /\ TypeMatches = {1, 2}
    /\ UsableMatches = {2}
    /\ registrationBaseUrl = IndexResources[2].id

----------------------------------------------------------------------------
(* C8: the alternate lookup *)

\* TryAlternative has run on an index that is a JSON object
AltLookedUp == altIndex.kind = "object" /\ pc # "alternative"
AltPages == GetList(altIndex.items)
AltLeavesOf(g) == GetList(AltPages[g].items)
AltPositions ==
    UNION {{<<g, m>> : m \in 1..Len(AltLeavesOf(g))} : g \in 1..Len(AltPages)}
AltEntryAt(p) == AltLeavesOf(p[1])[p[2]].catalogEntry
Requested == config.package_version
VersionPositions ==
    {p \in AltPositions : AltEntryAt(p).kind = "dict" /\ AltEntryAt(p).version = Requested}
AllEntriesAreDicts == \A p \in AltPositions : AltEntryAt(p).kind \in {"dict", "absent"}
FirstPosition == CHOOSE p \in AltPositions : \A q \in AltPositions : Before(p, q)
AsReturned(entry) == IF entry.kind = "absent" THEN EmptyDict ELSE entry
AltReturned == pc = "extract" /\ raised.err = "none"

\* C8: if any entry of the index has the requested version, the entry
\* returned has exactly that version; the first entry of the first non-empty
\* page is returned only when none has it; an index with no entries fails
\* with RegistryError.
C8_ExactVersionElseFirst ==
    AltLookedUp
        => /\ (VersionPositions # {} /\ AllEntriesAreDicts) => AltReturned
           /\ (VersionPositions # {} /\ AltReturned)
                  => /\ packageData.version = Requested
                     /\ \E p \in VersionPositions : packageData = AltEntryAt(p)
           /\ (VersionPositions = {} /\ AltReturned)
                  => /\ AltPositions # {}
                     /\ packageData = AsReturned(AltEntryAt(FirstPosition))
           /\ AltPositions = {} => raised.err = "NuGetError"

\* the requested version is found on the second page, not first in the index
C8_Witness ==
    /\ AltLookedUp
    /\ AltReturned
    /\ Len(AltPages) = 2
    /\ AltLeavesOf(1) # Empty
    /\ AltEntryAt(FirstPosition).version # Requested
    /\ VersionPositions = {<<2, 1>>}
    /\ packageData.version = Requested

----------------------------------------------------------------------------
(* C9: the order of the requests *)

RequestOrder == <<"service_index", "package_version", "package_index">>
RequestsInOrder ==
    /\ Len(requests) <= 3
    /\ \A i \in 1..Len(requests) : requests[i].kind = RequestOrder[i]
\* run() was entered and the first call of get_dependencies has returned
IndexRequested == (config # NoConfig /\ pc # "run") => Len(requests) >= 1
\* the service lookup succeeded and _get_package_data has returned
PackageRequested ==
    (registrationBaseUrl # Absent /\ pc # "get_package") => Len(requests) >= 2
AlternateOnlyAfterFailure == Len(requests) = 3 => primaryFailed
\* no request follows a failed fetch of the service index or a failed lookup
NothingAfterIndexFailure ==
    (Len(requests) >= 1 /\ (serviceIndex.kind = "none" \/ registrationBaseUrl = Absent))
        => Len(requests) = 1
SameUrl(i, j) == i < j /\ requests[i].url = requests[j].url
RequestPairs == (1..Len(requests)) \X (1..Len(requests))

\* C9 as stated: the service index is requested exactly once, then the
\* version-specific URL exactly once, then the index-of-versions URL at most
\* once and only after the version-specific lookup raised RegistryError; no
\* URL is requested twice; nothing follows a failed service-index fetch or a
\* failed alternate lookup.
C9_RequestOrderDistinctUrls ==
    /\ RequestsInOrder
    /\ IndexRequested
    /\ PackageRequested
    /\ AlternateOnlyAfterFailure
    /\ NothingAfterIndexFailure
    /\ \A p \in RequestPairs : ~SameUrl(p[1], p[2])

\* C9 amended: the same order and multiplicity of the three requests; a URL
\* is requested twice only where two of the run's three URLs are the same
\* string, as the version-specific and the index-of-versions URL are when
\* package_version is "index" (repository_url is neither of them here).
C9_RequestOrder ==
    /\ RequestsInOrder
    /\ IndexRequested
    /\ PackageRequested
    /\ AlternateOnlyAfterFailure
    /\ NothingAfterIndexFailure
    /\ \A p \in RequestPairs :
        SameUrl(p[1], p[2])
            => p = <<2, 3>> /\ config.package_version = IndexWord

\* all three requests, the alternate lookup succeeded
C9_Witness ==
    /\ Len(requests) = 3
    /\ primaryFailed
    /\ displayed
    /\ \A p \in RequestPairs : ~SameUrl(p[1], p[2])

----------------------------------------------------------------------------
(* C10: no partial result *)

RunFailed == raised.err # "none"

\* C10: in a run in which a step fails, display_dependencies is never called,
\* self.dependencies is never assigned and the exit code is non-zero; the
\* report is produced only after get_dependencies has returned.
C10_NoPartialResult ==
    /\ RunFailed => /\ ~displayed
                    /\ ~depsAssigned
                    /\ dependencies = Empty
                    /\ pc = "exit" => exitCode = 1
    /\ displayed => depsAssigned /\ ~RunFailed
    /\ depsAssigned => pc \in {"display", "exit"}
    /\ (pc = "exit" /\ exitCode = 0) => displayed

\* the filter fails after dependencies were extracted
C10_Witness ==
    /\ pc = "exit"
    /\ raised.err = "AttributeError"
    /\ extracted # Empty
    /\ ~displayed
    /\ ~depsAssigned
    /\ exitCode = 1

====
